---- MODULE Spec2Model ----
(***************************************************************************)
(* Model of ft5x06-tool.c: a command-line tool that reads and writes the   *)
(* firmware of FT5x06/FT5x16/FT5x26 touch controllers over I2C.            *)
(*                                                                         *)
(* The program is sequential.  Its state is the position in main() and in  *)
(* the engine it called, the locals that survive a step, and the output    *)
(* file.  The environment is the I2C bus: every transaction may fail (when *)
(* the bus is faulty) and every read returns bytes chosen by the chip.     *)
(* The transactions the bus has seen are summarised in att, bus and        *)
(* lastXfer; boot records whether the host's commands have left the chip   *)
(* in bootloader mode.                                                     *)
(***************************************************************************)
EXTENDS Integers, Sequences, FiniteSets, TLC

VARIABLES
    args,      \* parsed command line: [bad, chipArg, input, output]
    img,       \* the input file: [len, pat], bytes given by data(img, k)
    cipher,    \* the byte the chip answers for register ID_G_CIPHER
    faulty,    \* whether I2C transactions of this run may fail
    boot,      \* the chip as the host's commands left it: in bootloader
               \* mode from a READ-ID answer with the upgrade ids until
               \* the next write of FT_REG_RESET_FW
    flash_val, \* ft5x06_fw_send_packet: reg_val[0] << 8 | reg_val[1]
    pc,        \* position in the program
    caller,    \* engine that called ft5x06_init_upgrade: "read" / "upgrade"
    chip_id,   \* main: chip_id
    ret,       \* return value of the last call that has one
    status,    \* process exit status, NoStatus while running
    i_init,    \* ft5x06_init_upgrade: i
    i_read,    \* ft5x06_fw_read: i
    i_upg,     \* ft5x06_fw_upgrade: i
    i_poll,    \* ft5x06_fw_send_packet: i of the flash status loop
    ecc,       \* ft5x06_fw_upgrade: ecc
    sink,      \* output file while it is open: the flash offset of each
               \* 256-byte block appended
    tx,        \* payload bytes of all programming packets put on the bus
    att,       \* transactions of the current ft5x06_init_upgrade call
    bus,       \* transactions of the current engine after bootloader entry
    lastXfer,  \* last transaction: [wr |-> bytes written, rdlen |-> bytes asked]
    errs,      \* fatal errors the run has reported
    wrErr,     \* a transaction of the write engine failed after entry
    reg_val    \* ft5x06_fw_upgrade: reg_val[0]

vars == <<args, img, cipher, faulty, boot, flash_val, pc, caller, chip_id, ret, status,
          i_init, i_read, i_upg, i_poll, ecc, sink, tx, att, bus,
          lastXfer, errs, wrErr, reg_val>>

(***************************************************************************)
(* Program constants                                                       *)
(***************************************************************************)
ID_G_CIPHER == 163
ID_G_FIRMID == 166
FT_FW_READ_REG == 3
FT_REG_RESET_FW == 7
FT_ERASE_APP_REG == 97
FT_ERASE_PANEL_REG == 99
FT_FLASH_STATUS == 106
FT_READ_ID_REG == 144
FT_FW_START_REG == 191
FT_REG_ECC == 204
FT_RST_CMD_REG1 == 252
FT_UPGRADE_AA == 170
FT_UPGRADE_55 == 85
FT_UPGRADE_LOOP == 30
FT_FW_MIN_SIZE == 8
FT_FW_MAX_SIZE == 65536
FT_FW_PKT_LEN == 128
FT_FW_PKT_READ_LEN == 256
FT_POLL_TRIES == 5
FT_LEN_ANNOUNCE == 176
FT5x06_ID == 85
FT5x16_ID == 10
FT5x26_ID == 84
EIO == 5
ENODEV == 19
EXIT_USAGE == 1

ft5x06_fwu_info ==
    << [chip_id |-> FT5x06_ID, fts_name |-> "ft5x06", delay_aa |-> 50,
        delay_55 |-> 30, upgrade_id_1 |-> 121, upgrade_id_2 |-> 3,
        delay_readid |-> 10, delay_erase_flash |-> 2000],
       [chip_id |-> FT5x16_ID, fts_name |-> "ft5x16", delay_aa |-> 50,
        delay_55 |-> 30, upgrade_id_1 |-> 121, upgrade_id_2 |-> 7,
        delay_readid |-> 10, delay_erase_flash |-> 1500],
       [chip_id |-> FT5x26_ID, fts_name |-> "ft5x26", delay_aa |-> 4,
        delay_55 |-> 250, upgrade_id_1 |-> 84, upgrade_id_2 |-> 44,
        delay_readid |-> 10, delay_erase_flash |-> 3000] >>

\* a null char pointer, and a null pointer into ft5x06_fwu_info
NULL_NAME == "(null)"
NULL == 0
NoStatus == -1

(***************************************************************************)
(* Bounds of the model                                                     *)
(***************************************************************************)
MaxTinyLen == 9

(***************************************************************************)
(* Byte arithmetic                                                         *)
(***************************************************************************)
\* (uint8_t) x
U8(x) == x % 256

\* (uint8_t) (x >> 8)
Hi8(x) == (x \div 256) % 256

\* bit of weight w of a ^ b
XorBit(a, b, w) == (((a \div w) + (b \div w)) % 2) * w

\* a ^ b on uint8_t
Xor(a, b) ==
    XorBit(a, b, 1) + XorBit(a, b, 2) + XorBit(a, b, 4) + XorBit(a, b, 8)
    + XorBit(a, b, 16) + XorBit(a, b, 32) + XorBit(a, b, 64)
    + XorBit(a, b, 128)

\* (hi << 8) | lo for two bytes
Word(hi, lo) == hi * 256 + lo

(***************************************************************************)
(* The input file.  data(f, k) is byte k (from 0) of the mapped file.      *)
(***************************************************************************)
Pow2(n) == CASE n = 0 -> 1 [] n = 1 -> 2 [] n = 2 -> 4 [] n = 3 -> 8
             [] n = 4 -> 16 [] n = 5 -> 32 [] n = 6 -> 64 [] OTHER -> 128

data(f, k) ==
    CASE f.pat = "s1" -> Pow2(k % 8)
      [] f.pat = "aa" -> 170
      [] f.pat = "5a" -> 90
      [] OTHER        -> ((k * 7) + 3) % 256

(***************************************************************************)
(* Variant registry                                                        *)
(***************************************************************************)
InfoIdx(id) == {k \in 1..Len(ft5x06_fwu_info) : ft5x06_fwu_info[k].chip_id = id}

First(S) == CHOOSE k \in S : \A m \in S : k <= m

ft5x06_get_name(id) ==
    IF InfoIdx(id) = {} THEN NULL_NAME
    ELSE ft5x06_fwu_info[First(InfoIdx(id))].fts_name

\* the result points into the table: the index of the entry, or NULL
ft5x06_get_info(id) ==
    IF InfoIdx(id) = {} THEN NULL
    ELSE First(InfoIdx(id))

(***************************************************************************)
(* The I2C bus                                                             *)
(***************************************************************************)
\* outcome of one ioctl(I2C_RDWR): TRUE is success, FALSE is ret < 0
Outcomes == IF faulty THEN {TRUE, FALSE} ELSE {TRUE}

\* bytes the chip may answer to the READ-ID command
IdBytes == {0, 3, 7, 44, 84, 121}

Xfer(w, n) == [wr |-> w, rdlen |-> n]

\* ft5x06_init_upgrade before its first attempt: no transaction yet; id is
\* reg_val of ft5x06_read_id and hid is packet_buf of ft5x26_hid_to_i2c as
\* the current attempt last read them, zero before the read
NoAtt == [ctpm |-> 0, bridge |-> 0, hs |-> 0, matched |-> FALSE,
          id |-> <<0, 0>>, hid |-> <<0, 0, 0>>]

NoBus == [e61 |-> 0, e63 |-> 0, b0 |-> 0, bf |-> 0, cc |-> 0, rst |-> 0,
          rd |-> 0]

(***************************************************************************)
(* Initial states: the command lines, input files and chips of the model   *)
(***************************************************************************)
ChipArgs == {-1, FT5x16_ID, 153, 341}

Ciphers == {FT5x06_ID, FT5x26_ID, 153}

TinyLens == {0} \cup ((FT_FW_MIN_SIZE - 1)..MaxTinyLen)

Images ==
    {[len |-> 8, pat |-> "s1"], [len |-> 200, pat |-> "aa"],
     [len |-> 128, pat |-> "5a"]}
    \cup {[len |-> n, pat |-> "ramp"] : n \in TinyLens \cup {4, 127, 129, 256, 257}}

NoImage == [len |-> 0, pat |-> "none"]

InitProgram ==
    /\ pc = "parse"
    /\ caller = "none"
    /\ chip_id = -1
    /\ ret = 0
    /\ status = NoStatus
    /\ i_init = 0
    /\ i_read = 0
    /\ i_upg = 0
    /\ i_poll = 0
    /\ ecc = 0
    /\ sink = <<>>
    /\ tx = <<>>
    /\ att = NoAtt
    /\ bus = NoBus
    /\ lastXfer = Xfer(<<>>, 0)
    /\ errs = {}
    /\ wrErr = FALSE
    /\ reg_val = 0
    /\ boot = FALSE
    /\ flash_val = 0

InitArgs ==
    /\ args \in [bad : BOOLEAN, chipArg : ChipArgs, input : BOOLEAN,
                 output : BOOLEAN]
    /\ args.bad => (args.chipArg = -1 /\ ~args.input /\ ~args.output)
    /\ cipher \in Ciphers
    /\ args.chipArg >= 0 => cipher = FT5x06_ID
    /\ faulty \in BOOLEAN

Init ==
    /\ InitArgs
    /\ img \in IF args.input THEN Images ELSE {NoImage}
    /\ InitProgram

(***************************************************************************)
(* main: argument parsing, bus set-up, identification                      *)
(***************************************************************************)
\* lines 489-511: an unknown flag prints the help and exits 1
ParseArgs ==
    /\ pc = "parse"
    /\ IF args.bad
       THEN /\ pc' = "exit"
            /\ status' = EXIT_USAGE
            /\ errs' = errs \cup {"flag"}
            /\ chip_id' = chip_id
       ELSE /\ pc' = "open"
            /\ chip_id' = args.chipArg
            /\ UNCHANGED <<status, errs>>
    /\ UNCHANGED <<args, img, cipher, faulty, boot, flash_val, caller, ret, i_init, i_read,
                   i_upg, i_poll, ecc, sink, tx, att, bus, lastXfer, wrErr, reg_val>>

\* lines 513-526: open the bus device and set the slave address
OpenBus ==
    /\ pc = "open"
    /\ \E ok \in Outcomes :
         IF ok
         THEN /\ pc' = "detect"
              /\ UNCHANGED <<status, errs>>
         ELSE /\ pc' = "exit"
              /\ status' = U8(-1)
              /\ errs' = errs \cup {"open"}
    /\ UNCHANGED <<args, img, cipher, faulty, boot, flash_val, caller, chip_id, ret, i_init,
                   i_read, i_upg, i_poll, ecc, sink, tx, att, bus, lastXfer,
                   wrErr, reg_val>>

\* lines 528-537: read register ID_G_CIPHER unless the chip id is forced
DetectChip ==
    /\ pc = "detect"
    /\ IF chip_id < 0
       THEN \E ok \in Outcomes :
              /\ lastXfer' = Xfer(<<ID_G_CIPHER>>, 1)
              /\ IF ok
                 THEN /\ chip_id' = cipher
                      /\ ret' = 0
                      /\ pc' = "name"
                      /\ errs' = errs
                 ELSE /\ chip_id' = chip_id
                      /\ ret' = -1
                      /\ pc' = "end"
                      /\ errs' = errs \cup {"transport"}
       ELSE /\ pc' = "name"
            /\ UNCHANGED <<chip_id, ret, errs, lastXfer>>
    /\ UNCHANGED <<args, img, cipher, faulty, boot, flash_val, caller, status, i_init, i_read,
                   i_upg, i_poll, ecc, sink, tx, att, bus, wrErr, reg_val>>

\* lines 538-542 without the goto end
CheckNameNoStop ==
    /\ pc = "name"
    /\ pc' = "fwver"
    /\ errs' = IF ft5x06_get_name(chip_id) = NULL_NAME
               THEN errs \cup {"chip"} ELSE errs
    /\ UNCHANGED <<args, img, cipher, faulty, boot, flash_val, caller, chip_id, ret, status,
                   i_init, i_read, i_upg, i_poll, ecc, sink, tx, att, bus,
                   lastXfer, wrErr, reg_val>>

\* lines 538-542: an id that is not in the table ends the run
CheckName ==
    /\ pc = "name"
    /\ IF ft5x06_get_name(chip_id) = NULL_NAME
       THEN /\ pc' = "end"
            /\ errs' = errs \cup {"chip"}
       ELSE /\ pc' = "fwver"
            /\ errs' = errs
    /\ UNCHANGED <<args, img, cipher, faulty, boot, flash_val, caller, chip_id, ret, status,
                   i_init, i_read, i_upg, i_poll, ecc, sink, tx, att, bus,
                   lastXfer, wrErr, reg_val>>

\* lines 544-551: read register ID_G_FIRMID
ReadFwVersion ==
    /\ pc = "fwver"
    /\ \E ok \in Outcomes :
         /\ lastXfer' = Xfer(<<ID_G_FIRMID>>, 1)
         /\ IF ok
            THEN /\ ret' = 0
                 /\ pc' = "todo"
                 /\ errs' = errs
            ELSE /\ ret' = -1
                 /\ pc' = "end"
                 /\ errs' = errs \cup {"transport"}
    /\ UNCHANGED <<args, img, cipher, faulty, boot, flash_val, caller, chip_id, status,
                   i_init, i_read, i_upg, i_poll, ecc, sink, tx, att, bus,
                   wrErr, reg_val>>

\* lines 553-556 without the test: the run goes on to the engines
NothingToDoSkipped ==
    /\ pc = "todo"
    /\ pc' = "rd_open"
    /\ UNCHANGED <<args, img, cipher, faulty, boot, flash_val, caller, chip_id, ret, status,
                   i_init, i_read, i_upg, i_poll, ecc, sink, tx, att, bus,
                   lastXfer, errs, wrErr, reg_val>>

\* lines 553-556
NothingToDo ==
    /\ pc = "todo"
    /\ pc' = IF ~args.input /\ ~args.output THEN "end" ELSE "rd_open"
    /\ UNCHANGED <<args, img, cipher, faulty, boot, flash_val, caller, chip_id, ret, status,
                   i_init, i_read, i_upg, i_poll, ecc, sink, tx, att, bus,
                   lastXfer, errs, wrErr, reg_val>>

\* lines 596-598: every path through end returns 0
End ==
    /\ pc = "end"
    /\ pc' = "exit"
    /\ status' = 0
    /\ UNCHANGED <<args, img, cipher, faulty, boot, flash_val, caller, chip_id, ret, i_init,
                   i_read, i_upg, i_poll, ecc, sink, tx, att, bus, lastXfer,
                   errs, wrErr, reg_val>>

(***************************************************************************)
(* Bootloader entry: ft5x06_init_upgrade and the primitives it calls       *)
(***************************************************************************)
\* outcome of open() on a host file
FileOutcomes == {TRUE, FALSE}

\* lines 264-267 and 240-248: loop test, then reset_ctpm writes 0xAA and
\* 0x55 to register 0xFC; neither result is looked at
ResetCtpm ==
    /\ pc = "iu_reset"
    /\ i_init < FT_UPGRADE_LOOP
    /\ att' = [att EXCEPT !.ctpm = @ + 1, !.id = <<0, 0>>,
                          !.hid = <<0, 0, 0>>]
    /\ lastXfer' = Xfer(<<FT_RST_CMD_REG1, FT_UPGRADE_55>>, 0)
    /\ pc' = IF chip_id = FT5x26_ID THEN "iu_hid" ELSE "iu_enter"
    /\ UNCHANGED <<args, img, cipher, faulty, boot, flash_val, caller, chip_id, ret, status,
                   i_init, i_read, i_upg, i_poll, ecc, sink, tx, bus, errs,
                   wrErr, reg_val>>

\* three-byte answers of the chip to the bridge command: the expected one
\* and others
BridgeReplies == {<<235, 170, 8>>, <<235, 170, 9>>, <<0, 0, 0>>}

\* ft5x26_hid_to_i2c made to fail the attempt when the reply of lines
\* 212-213 is not the expected one
Ft5x26HidToI2cChecked ==
    /\ pc = "iu_hid"
    /\ \E ok \in Outcomes, reply \in BridgeReplies :
         LET rv == IF ok THEN reply ELSE <<0, 0, 0>>
         IN  /\ att' = [att EXCEPT !.bridge = @ + 1, !.hid = rv]
             /\ IF rv = <<235, 170, 8>>
                THEN /\ i_init' = i_init
                     /\ pc' = "iu_enter"
                ELSE /\ i_init' = i_init + 1
                     /\ pc' = IF i_init + 1 < FT_UPGRADE_LOOP
                              THEN "iu_reset" ELSE "iu_exit"
    /\ lastXfer' = Xfer(<<>>, 3)
    /\ UNCHANGED <<args, img, cipher, faulty, boot, flash_val, caller,
                   chip_id, ret, status, i_read, i_upg, i_poll, ecc, sink,
                   tx, bus, errs, wrErr, reg_val>>

\* lines 271-272 and 203-218: write {0xeb, 0xaa, 0x09}, clear the buffer,
\* read three bytes into it; the reply is compared only to log it and no
\* result is returned
Ft5x26HidToI2c ==
    /\ pc = "iu_hid"
    /\ \E ok \in Outcomes, reply \in BridgeReplies :
         att' = [att EXCEPT !.bridge = @ + 1,
                            !.hid = IF ok THEN reply ELSE <<0, 0, 0>>]
    /\ lastXfer' = Xfer(<<>>, 3)
    /\ pc' = "iu_enter"
    /\ UNCHANGED <<args, img, cipher, faulty, boot, flash_val, caller, chip_id, ret, status,
                   i_init, i_read, i_upg, i_poll, ecc, sink, tx, bus, errs,
                   wrErr, reg_val>>

\* the loop of line 264 with one attempt fewer
NextAttemptShort(n) == IF n + 1 < FT_UPGRADE_LOOP THEN "iu_reset" ELSE "iu_exit"

\* position after one more iteration of the loop of line 264
NextAttempt(n) == IF n < FT_UPGRADE_LOOP THEN "iu_reset" ELSE "iu_exit"

\* lines 273-279: write {0x55, 0xAA}; on error continue with the next i
EnterUpgradeMode ==
    /\ pc = "iu_enter"
    /\ att' = [att EXCEPT !.hs = @ + 1]
    /\ lastXfer' = Xfer(<<FT_UPGRADE_55, FT_UPGRADE_AA>>, 0)
    /\ \E ok \in Outcomes :
         IF ok
         THEN /\ pc' = "iu_readid"
              /\ i_init' = i_init
         ELSE /\ i_init' = i_init + 1
              /\ pc' = NextAttempt(i_init + 1)
    /\ UNCHANGED <<args, img, cipher, faulty, boot, flash_val, caller, chip_id, ret, status,
                   i_read, i_upg, i_poll, ecc, sink, tx, bus, errs, wrErr, reg_val>>

\* lines 230-231 comparing the first byte only
ft5x06_read_id_first(id, ok, b0, b1) ==
    LET info == ft5x06_fwu_info[ft5x06_get_info(id)]
        id_val == IF ok THEN <<b0, b1>> ELSE <<0, 0>>
    IN  IF id_val[1] # info.upgrade_id_1 THEN -1 ELSE 0

\* lines 220-238: 0 when the two bytes read are the variant's upgrade ids;
\* reg_val starts as {0, 0} and stays so when the read fails
ft5x06_read_id(id, ok, b0, b1) ==
    LET info == ft5x06_fwu_info[ft5x06_get_info(id)]
        id_val == IF ok THEN <<b0, b1>> ELSE <<0, 0>>
    IN  IF id_val[1] # info.upgrade_id_1 \/ id_val[2] # info.upgrade_id_2
        THEN -1
        ELSE 0

\* lines 281-285: break when the id is right, else next i
CheckReadId ==
    /\ pc = "iu_readid"
    /\ lastXfer' = Xfer(<<FT_READ_ID_REG, 0, 0, 0>>, 2)
    /\ \E ok \in Outcomes, b0 \in IdBytes, b1 \in IdBytes :
         IF ft5x06_read_id(chip_id, ok, b0, b1) = 0
         THEN /\ att' = [att EXCEPT !.matched = TRUE, !.id = <<b0, b1>>]
              /\ boot' = TRUE
              /\ i_init' = i_init
              /\ pc' = "iu_exit"
         ELSE /\ att' = [att EXCEPT !.id = IF ok THEN <<b0, b1>>
                                          ELSE <<0, 0>>]
              /\ boot' = boot
              /\ i_init' = i_init + 1
              /\ pc' = NextAttempt(i_init + 1)
    /\ UNCHANGED <<args, img, cipher, faulty, flash_val, caller, chip_id, ret, status,
                   i_read, i_upg, i_poll, ecc, sink, tx, bus, errs, wrErr, reg_val>>

\* lines 287-290: -EIO when the loop ran out, 0 otherwise
InitUpgradeReturn ==
    /\ pc = "iu_exit"
    /\ ret' = IF i_init >= FT_UPGRADE_LOOP THEN -EIO ELSE 0
    /\ pc' = IF caller = "read" THEN "rd_chk" ELSE "up_chk"
    /\ UNCHANGED <<args, img, cipher, faulty, boot, flash_val, caller, chip_id, status,
                   i_init, i_read, i_upg, i_poll, ecc, sink, tx, att, bus,
                   lastXfer, errs, wrErr, reg_val>>

(***************************************************************************)
(* Read engine: ft5x06_fw_read                                             *)
(***************************************************************************)
\* lines 558-565: open the output file and call ft5x06_fw_read, whose first
\* statement calls ft5x06_init_upgrade
CallFwRead ==
    /\ pc = "rd_open"
    /\ IF args.output
       THEN \E ok \in FileOutcomes :
              IF ok
              THEN /\ pc' = "iu_reset"
                   /\ caller' = "read"
                   /\ errs' = errs
              ELSE /\ pc' = "end"
                   /\ caller' = caller
                   /\ errs' = errs \cup {"file"}
       ELSE /\ pc' = "in_open"
            /\ UNCHANGED <<caller, errs>>
    /\ i_init' = 0
    /\ att' = NoAtt
    /\ bus' = NoBus
    /\ UNCHANGED <<args, img, cipher, faulty, boot, flash_val, chip_id, ret, status, i_read,
                   i_upg, i_poll, ecc, sink, tx, lastXfer, wrErr, reg_val>>

\* lines 352-357: give up when bootloader entry failed
ReadCheckInit ==
    /\ pc = "rd_chk"
    /\ IF ret < 0
       THEN /\ pc' = "rd_ret"
            /\ errs' = errs \cup {"bootloader"}
       ELSE /\ pc' = "rd_pkt"
            /\ errs' = errs
    /\ i_read' = 0
    /\ i_init' = 0
    /\ att' = NoAtt
    /\ UNCHANGED <<args, img, cipher, faulty, boot, flash_val, caller, chip_id, ret, status,
                   i_upg, i_poll, ecc, sink, tx, bus, lastXfer, wrErr, reg_val>>

\* lines 338-339 with the two offset bytes in the other order
ReadPacketCmdSwapped(command, offset) ==
    <<command, 0, U8(offset), Hi8(offset)>>

\* lines 335-339: the four command bytes of a read packet
ReadPacketCmd(command, offset) == <<command, 0, Hi8(offset), U8(offset)>>

\* the flash offset the chip serves for a read command
CmdOffset(cmd) == Word(cmd[3], cmd[4])

\* lines 358-361
ReadLength(size, i) ==
    IF size - i < FT_FW_PKT_READ_LEN THEN size - i ELSE FT_FW_PKT_READ_LEN

\* lines 357-369 and 329-343: one read packet, appended to the output file
ReceivePacket ==
    /\ pc = "rd_pkt"
    /\ i_read < FT_FW_MAX_SIZE
    /\ LET cmd == ReadPacketCmd(FT_FW_READ_REG, i_read)
           length == ReadLength(FT_FW_MAX_SIZE, i_read)
       IN  /\ lastXfer' = Xfer(cmd, length)
           /\ bus' = [bus EXCEPT !.rd = @ + 1]
           /\ \E ok \in Outcomes :
                IF ok
                THEN /\ sink' = Append(sink, CmdOffset(cmd))
                     /\ i_read' = i_read + FT_FW_PKT_READ_LEN
                     /\ pc' = IF i_read + FT_FW_PKT_READ_LEN < FT_FW_MAX_SIZE
                              THEN "rd_pkt" ELSE "rd_rst"
                     /\ UNCHANGED <<ret, errs>>
                ELSE /\ ret' = -1
                     /\ pc' = "rd_ret"
                     /\ errs' = errs \cup {"transport"}
                     /\ UNCHANGED <<sink, i_read>>
    /\ UNCHANGED <<args, img, cipher, faulty, boot, flash_val, caller, chip_id, status,
                   i_init, i_upg, i_poll, ecc, tx, att, wrErr, reg_val>>

\* lines 371-376: firmware reset, return 0
ReadResetFw ==
    /\ pc = "rd_rst"
    /\ boot' = FALSE
    /\ lastXfer' = Xfer(<<FT_REG_RESET_FW>>, 0)
    /\ bus' = [bus EXCEPT !.rst = @ + 1]
    /\ ret' = 0
    /\ pc' = "rd_ret"
    /\ UNCHANGED <<args, img, cipher, faulty, flash_val, caller, chip_id, status,
                   i_init, i_read, i_upg, i_poll, ecc, sink, tx, att, errs,
                   wrErr, reg_val>>

\* lines 565-569: report a failed read, close the output file, go on to the
\* input block whatever ft5x06_fw_read returned; the locals
\* of ft5x06_fw_read and the closed file are no longer program state
MainAfterRead ==
    /\ pc = "rd_ret"
    /\ pc' = "in_open"
    /\ i_read' = 0
    /\ sink' = <<>>
    /\ bus' = NoBus
    /\ caller' = "none"
    /\ errs' = IF ret < 0 THEN errs \cup {"read"} ELSE errs
    /\ UNCHANGED <<args, img, cipher, faulty, boot, flash_val, chip_id, ret,
                   status, i_init, i_upg, i_poll, ecc, tx, att, lastXfer,
                   wrErr, reg_val>>

(***************************************************************************)
(* Write engine: ft5x06_fw_upgrade and ft5x06_fw_send_packet               *)
(***************************************************************************)
\* lines 572-590 and 382-391: open and map the input file, then call
\* ft5x06_fw_upgrade, which starts with ecc = 0 and bootloader entry.
\* mmap of an empty file fails.  No test of the file size is made.
CallFwUpgrade ==
    /\ pc = "in_open"
    /\ IF args.input
       THEN \E ok \in FileOutcomes :
              IF ok /\ img.len > 0
              THEN IF ft5x06_get_info(chip_id) = NULL
                   THEN /\ pc' = "up_ret"
                        /\ ret' = -ENODEV
                        /\ UNCHANGED <<caller, errs>>
                   ELSE /\ pc' = "iu_reset"
                        /\ caller' = "upgrade"
                        /\ UNCHANGED <<ret, errs>>
              ELSE /\ pc' = "end"
                   /\ errs' = errs \cup {"file"}
                   /\ UNCHANGED <<caller, ret>>
       ELSE /\ pc' = "end"
            /\ UNCHANGED <<caller, ret, errs>>
    /\ i_init' = 0
    /\ att' = NoAtt
    /\ ecc' = 0
    /\ reg_val' = 0
    /\ bus' = NoBus
    /\ UNCHANGED <<args, img, cipher, faulty, boot, flash_val, chip_id, status, i_read,
                   i_upg, i_poll, sink, tx, lastXfer, wrErr>>

\* lines 391-393 without the test of ret
UpgradeCheckInitIgnored ==
    /\ pc = "up_chk"
    /\ pc' = "up_erase"
    /\ i_init' = 0
    /\ att' = NoAtt
    /\ UNCHANGED <<args, img, cipher, faulty, boot, flash_val, caller,
                   chip_id, ret, status, i_read, i_upg, i_poll, ecc, sink,
                   tx, bus, lastXfer, errs, wrErr, reg_val>>

\* lines 391-393
UpgradeCheckInit ==
    /\ pc = "up_chk"
    /\ IF ret < 0
       THEN /\ pc' = "up_ret"
            /\ errs' = errs \cup {"bootloader"}
       ELSE /\ pc' = "up_erase"
            /\ errs' = errs
    /\ i_init' = 0
    /\ att' = NoAtt
    /\ UNCHANGED <<args, img, cipher, faulty, boot, flash_val, caller, chip_id, ret, status,
                   i_read, i_upg, i_poll, ecc, sink, tx, bus, lastXfer,
                   wrErr, reg_val>>

\* lines 395-401 with the test of line 398 left out
EraseAppAlwaysPanel ==
    /\ pc = "up_erase"
    /\ lastXfer' = Xfer(<<FT_ERASE_APP_REG>>, 0)
    /\ bus' = [bus EXCEPT !.e61 = @ + 1]
    /\ \E ok \in Outcomes : wrErr' = (wrErr \/ ~ok)
    /\ pc' = "up_panel"
    /\ UNCHANGED <<args, img, cipher, faulty, boot, flash_val, caller, chip_id, ret, status,
                   i_init, i_read, i_upg, i_poll, ecc, sink, tx, att, errs,
                   reg_val>>

\* lines 395-397: erase the application; the result is not looked at
EraseApp ==
    /\ pc = "up_erase"
    /\ lastXfer' = Xfer(<<FT_ERASE_APP_REG>>, 0)
    /\ bus' = [bus EXCEPT !.e61 = @ + 1]
    /\ \E ok \in Outcomes : wrErr' = (wrErr \/ ~ok)
    /\ pc' = IF chip_id # FT5x26_ID THEN "up_panel" ELSE "up_len"
    /\ UNCHANGED <<args, img, cipher, faulty, boot, flash_val, caller, chip_id, ret, status,
                   i_init, i_read, i_upg, i_poll, ecc, sink, tx, att, errs,
                   reg_val>>

\* lines 398-401: erase the panel parameters
ErasePanel ==
    /\ pc = "up_panel"
    /\ lastXfer' = Xfer(<<FT_ERASE_PANEL_REG>>, 0)
    /\ bus' = [bus EXCEPT !.e63 = @ + 1]
    /\ \E ok \in Outcomes : wrErr' = (wrErr \/ ~ok)
    /\ pc' = "up_len"
    /\ UNCHANGED <<args, img, cipher, faulty, boot, flash_val, caller, chip_id, ret, status,
                   i_init, i_read, i_upg, i_poll, ecc, sink, tx, att, errs,
                   reg_val>>

\* lines 405-408 with a 16-bit length: no byte for data_len >> 16
LengthPacket16(data_len) ==
    <<FT_LEN_ANNOUNCE, 0, (data_len \div 256) % 256, data_len % 256>>

\* lines 405-408: the announcement of the image length
LengthPacket(data_len) ==
    <<FT_LEN_ANNOUNCE, (data_len \div 65536) % 256, (data_len \div 256) % 256,
      data_len % 256>>

\* position after the loop test of line 412 for offset i
NextPacket(i, data_len) == IF i < data_len THEN "up_pkt" ELSE "up_ecc"

\* lines 404-412: announce the length, start the packet loop at i = 0
AnnounceLength ==
    /\ pc = "up_len"
    /\ lastXfer' = Xfer(LengthPacket(img.len), 0)
    /\ bus' = [bus EXCEPT !.b0 = @ + 1]
    /\ \E ok \in Outcomes : wrErr' = (wrErr \/ ~ok)
    /\ i_upg' = 0
    /\ pc' = NextPacket(0, img.len)
    /\ UNCHANGED <<args, img, cipher, faulty, boot, flash_val, caller, chip_id, ret, status,
                   i_init, i_read, i_poll, ecc, sink, tx, att, errs, reg_val>>

\* lines 413-416
PktLength(data_len, i) ==
    IF data_len - i < FT_FW_PKT_LEN THEN data_len - i ELSE FT_FW_PKT_LEN

\* lines 301-306: the six header bytes of a programming packet
PktHeader(command, offset, length) ==
    <<command, 0, Hi8(offset), U8(offset), Hi8(length), U8(length)>>

\* line 308 reading data[i] in place of data[offset + i]
PktPayloadNoOffset(f, offset, length) ==
    [k \in 1..length |-> data(f, k - 1)]

\* line 308: packet_buf[6 + i] = data[offset + i] for i < length
PktPayload(f, offset, length) ==
    [k \in 1..length |-> data(f, offset + k - 1)]

\* line 309 with = in place of ^=
EccAssign(e, payload, lo, hi) == IF lo > hi THEN e ELSE payload[hi]

\* line 309: *ecc ^= packet_buf[6 + i] for payload bytes lo..hi in order.
\* The bytes are folded left to right, the first half before the second;
\* the value after the first half is computed once and then carried into
\* the second, which keeps the evaluation shallow.
RECURSIVE EccUpdate(_, _, _, _)
EccUpdate(e, payload, lo, hi) ==
    IF lo > hi THEN e
    ELSE IF lo = hi THEN Xor(e, payload[lo])
    ELSE LET mid == (lo + hi) \div 2
         IN  CHOOSE r \in {EccUpdate(left, payload, mid + 1, hi) :
                              left \in {EccUpdate(e, payload, lo, mid)}} : TRUE

\* lines 412-419 and 300-312: build one packet, fold it into ecc, write it
SendPacket ==
    /\ pc = "up_pkt"
    /\ i_upg < img.len
    /\ LET length == PktLength(img.len, i_upg)
           payload == PktPayload(img, i_upg, length)
       IN  /\ lastXfer' =
                 Xfer(PktHeader(FT_FW_START_REG, i_upg, length) \o payload, 0)
           /\ ecc' = EccUpdate(ecc, payload, 1, length)
           /\ tx' = tx \o payload
    /\ bus' = [bus EXCEPT !.bf = @ + 1]
    /\ \E ok \in Outcomes : wrErr' = (wrErr \/ ~ok)
    /\ i_poll' = 0
    /\ flash_val' = 0
    /\ pc' = "up_poll"
    /\ UNCHANGED <<args, img, cipher, faulty, boot, caller, chip_id, ret, status,
                   i_init, i_read, i_upg, sink, att, errs, reg_val>>

\* two-byte values the chip may answer for FT_FLASH_STATUS
StatusWords(pkt_num) == {0, 4096 + pkt_num, 4096 + pkt_num + 1}

\* lines 316-325 with a loop that ends on the expected value only
PollFlashStatusForever ==
    /\ pc = "up_poll"
    /\ lastXfer' = Xfer(<<FT_FLASH_STATUS>>, 2)
    /\ \E ok \in Outcomes, w \in StatusWords(i_upg \div FT_FW_PKT_LEN) :
         LET pkt_num == i_upg \div FT_FW_PKT_LEN
             rv == IF ok THEN <<Hi8(w), U8(w)>> ELSE <<0, 0>>
         IN  /\ flash_val' = Word(rv[1], rv[2])
             /\ IF pkt_num + 4096 = Word(rv[1], rv[2])
                THEN /\ i_upg' = i_upg + FT_FW_PKT_LEN
                     /\ pc' = NextPacket(i_upg + FT_FW_PKT_LEN, img.len)
                ELSE /\ i_upg' = i_upg
                     /\ pc' = "up_poll"
    /\ UNCHANGED <<args, img, cipher, faulty, boot, caller, chip_id, ret,
                   status, i_init, i_read, i_poll, ecc, sink, tx, att, bus,
                   errs, wrErr, reg_val>>

\* lines 316-325 without the break of lines 323-324
PollFlashStatusNoBreak ==
    /\ pc = "up_poll"
    /\ i_poll < FT_POLL_TRIES
    /\ lastXfer' = Xfer(<<FT_FLASH_STATUS>>, 2)
    /\ \E ok \in Outcomes, w \in StatusWords(i_upg \div FT_FW_PKT_LEN) :
         LET rv == IF ok THEN <<Hi8(w), U8(w)>> ELSE <<0, 0>>
         IN  /\ flash_val' = Word(rv[1], rv[2])
             /\ IF i_poll + 1 >= FT_POLL_TRIES
                THEN /\ i_poll' = 0
                     /\ i_upg' = i_upg + FT_FW_PKT_LEN
                     /\ pc' = NextPacket(i_upg + FT_FW_PKT_LEN, img.len)
                ELSE /\ i_poll' = i_poll + 1
                     /\ i_upg' = i_upg
                     /\ pc' = "up_poll"
    /\ UNCHANGED <<args, img, cipher, faulty, boot, caller, chip_id, ret,
                   status, i_init, i_read, ecc, sink, tx, att, bus, errs,
                   wrErr, reg_val>>

\* lines 316-325, then line 412: one poll of the flash status; the loop ends
\* on the expected value or after five reads, and the packet loop goes on
PollFlashStatus ==
    /\ pc = "up_poll"
    /\ i_poll < FT_POLL_TRIES
    /\ lastXfer' = Xfer(<<FT_FLASH_STATUS>>, 2)
    /\ \E ok \in Outcomes, w \in StatusWords(i_upg \div FT_FW_PKT_LEN) :
         LET pkt_num == i_upg \div FT_FW_PKT_LEN
             rv == IF ok THEN <<Hi8(w), U8(w)>> ELSE <<0, 0>>
         IN  /\ flash_val' = Word(rv[1], rv[2])
             /\ IF pkt_num + 4096 = Word(rv[1], rv[2])
                   \/ i_poll + 1 >= FT_POLL_TRIES
                THEN /\ i_poll' = 0
                     /\ i_upg' = i_upg + FT_FW_PKT_LEN
                     /\ pc' = NextPacket(i_upg + FT_FW_PKT_LEN, img.len)
                ELSE /\ i_poll' = i_poll + 1
                     /\ i_upg' = i_upg
                     /\ pc' = "up_poll"
    /\ UNCHANGED <<args, img, cipher, faulty, boot, caller, chip_id, ret, status,
                   i_init, i_read, ecc, sink, tx, att, bus, errs, wrErr,
                   reg_val>>

\* bytes the chip may answer for FT_REG_ECC: the host's value and others
EccBytes(e) == {0, 171, 255, e}

\* line 450 with the comparison left out
EccAlwaysOk(rv, e) == FALSE

\* line 450: reg_val[0] != ecc
EccMismatch(rv, e) == rv # e

\* lines 447-453: read FT_REG_ECC and compare with ecc; reg_val[0] starts
\* as 0 and stays so when the read fails
VerifyEcc ==
    /\ pc = "up_ecc"
    /\ flash_val' = 0
    /\ lastXfer' = Xfer(<<FT_REG_ECC>>, 1)
    /\ bus' = [bus EXCEPT !.cc = @ + 1]
    /\ \E ok \in Outcomes, b \in EccBytes(ecc) :
         /\ wrErr' = (wrErr \/ ~ok)
         /\ reg_val' = IF ok THEN b ELSE 0
         /\ IF EccMismatch(reg_val', ecc)
            THEN /\ ret' = -EIO
                 /\ errs' = errs \cup {"ecc"}
                 /\ pc' = "up_ret"
            ELSE /\ pc' = "up_rst"
                 /\ UNCHANGED <<ret, errs>>
    /\ UNCHANGED <<args, img, cipher, faulty, boot, caller, chip_id, status,
                   i_init, i_read, i_upg, i_poll, ecc, sink, tx, att>>

\* lines 455-458 and 250-257: firmware reset, return 0
UpgradeResetFw ==
    /\ pc = "up_rst"
    /\ boot' = FALSE
    /\ lastXfer' = Xfer(<<FT_REG_RESET_FW>>, 0)
    /\ bus' = [bus EXCEPT !.rst = @ + 1]
    /\ ret' = 0
    /\ pc' = "up_ret"
    /\ UNCHANGED <<args, img, cipher, faulty, flash_val, caller, chip_id, status,
                   i_init, i_read, i_upg, i_poll, ecc, sink, tx, att, errs,
                   wrErr, reg_val>>

\* lines 591-595: log a failure, unmap and close the input file
MainAfterUpgrade ==
    /\ pc = "up_ret"
    /\ pc' = "end"
    /\ caller' = "none"
    /\ UNCHANGED <<args, img, cipher, faulty, boot, flash_val, chip_id, ret, status, i_init,
                   i_read, i_upg, i_poll, ecc, sink, tx, att, bus, lastXfer,
                   errs, wrErr, reg_val>>

(***************************************************************************)
(* The program                                                             *)
(***************************************************************************)
Next ==
    \/ ParseArgs
    \/ OpenBus
    \/ DetectChip
    \/ CheckName
    \/ ReadFwVersion
    \/ NothingToDo
    \/ CallFwRead
    \/ ResetCtpm
    \/ Ft5x26HidToI2c
    \/ EnterUpgradeMode
    \/ CheckReadId
    \/ InitUpgradeReturn
    \/ ReadCheckInit
    \/ ReceivePacket
    \/ ReadResetFw
    \/ MainAfterRead
    \/ CallFwUpgrade
    \/ UpgradeCheckInit
    \/ EraseApp
    \/ ErasePanel
    \/ AnnounceLength
    \/ SendPacket
    \/ PollFlashStatus
    \/ VerifyEcc
    \/ UpgradeResetFw
    \/ MainAfterUpgrade
    \/ End

Spec == Init /\ [][Next]_vars

\* The same program on the command lines of Init and, on a bus without
\* failures, on input files of the largest sizes.
BigImages == {[len |-> n, pat |-> "ramp"] : n \in {FT_FW_MAX_SIZE - 1, FT_FW_MAX_SIZE}}

InitBig ==
    /\ InitArgs
    /\ img \in IF args.input THEN Images \cup BigImages ELSE {NoImage}
    /\ img \in BigImages =>
          (~faulty /\ ~args.output /\ cipher = FT5x06_ID /\ args.chipArg = -1)
    /\ InitProgram

SpecBig == InitBig /\ [][Next]_vars

\* The program as a process that runs: a step that can be taken is taken.
\* Every step is straight-line code around at most one ioctl, which
\* returns with success or failure, and bounded sleeps.  The bus may fail
\* at every transaction, which includes the runs where it never does; the
\* chip is detected, one with the bridge step and one without.
FairImages == {[len |-> 8, pat |-> "s1"], [len |-> 257, pat |-> "ramp"]}

InitFair ==
    /\ InitArgs
    /\ faulty
    /\ args.chipArg = -1
    /\ cipher \in {FT5x06_ID, FT5x26_ID}
    /\ img \in IF args.input THEN FairImages ELSE {NoImage}
    /\ InitProgram

SpecFair == InitFair /\ [][Next]_vars /\ WF_vars(Next)

(***************************************************************************)
(* Properties                                                              *)
(***************************************************************************)
Min(a, b) == IF a < b THEN a ELSE b

\* byte k (from 1) of the input file as a sequence
ImageBytes(f) == [k \in 1..f.len |-> data(f, k - 1)]

\* XOR of all bytes of s: bit w is the parity of the bytes that have it set
ParityBit(s, w) ==
    (Cardinality({k \in DOMAIN s : (s[k] \div w) % 2 = 1}) % 2) * w

XorAll(s) ==
    ParityBit(s, 1) + ParityBit(s, 2) + ParityBit(s, 4) + ParityBit(s, 8)
    + ParityBit(s, 16) + ParityBit(s, 32) + ParityBit(s, 64)
    + ParityBit(s, 128)

\* ft5x06_init_upgrade has returned to the engine that called it
EntryReturned == pc \in {"rd_chk", "up_chk"}

\* C1: when ft5x06_init_upgrade leaves its loop without any ID read having
\* returned the variant's (upgrade_id_1, upgrade_id_2), it has done exactly
\* 30 CTPM resets and exactly 30 writes of {0x55, 0xAA}, the last
\* transaction is one of that 30th attempt, and it returns -EIO.
C1_RetryBound ==
    /\ att.ctpm <= 30 /\ att.hs <= 30
    /\ (pc = "iu_exit" /\ ~att.matched) => (att.ctpm = 30 /\ att.hs = 30)
    /\ (EntryReturned /\ ~att.matched) =>
          /\ att.ctpm = 30
          /\ att.hs = 30
          /\ ret = -EIO
          /\ lastXfer.wr \in {<<85, 170>>, <<144, 0, 0, 0>>}

C1_Witness == pc = "up_chk" /\ ~att.matched /\ att.ctpm = 30 /\ ret = -EIO

\* a programming packet has just been put on the bus
JustSent == pc = "up_poll" /\ i_poll = 0

InRange(f) == f.len >= 8 /\ f.len <= 65536

\* C2: for an image of length L in [8, 65536], every programming packet
\* starts with 0xBF, carries in its header an offset that is a multiple of
\* 128 and the next one in the order 0, 128, 256, ..., has the payload
\* length min(128, L - offset) and the image bytes from that offset as
\* payload; when the packet loop is over, the payloads put end to end are
\* the image.
C2_Packets ==
    InRange(img) =>
      /\ JustSent =>
           LET p == lastXfer.wr
               off == Word(p[3], p[4])
               n == Word(p[5], p[6])
           IN  /\ p[1] = 191 /\ p[2] = 0
               /\ off % 128 = 0
               /\ off = 128 * (bus.bf - 1)
               /\ n = Min(128, img.len - off)
               /\ Len(p) = 6 + n
               /\ \A k \in 1..n : p[6 + k] = data(img, off + k - 1)
               /\ Len(tx) = off + n
               /\ \A k \in 1..n : tx[off + k] = p[6 + k]
      /\ pc \in {"up_ecc", "up_rst"} => tx = ImageBytes(img)

C2_Witness ==
    /\ pc = "up_ecc" /\ img.len = 257 /\ bus.bf = 3
    /\ lastXfer.rdlen = 2 /\ tx = ImageBytes(img)

\* C3: the running ecc is the XOR of the payload bytes of the programming
\* packets sent so far, and after the last packet it is the XOR of all
\* bytes of the image: 0xFF for {1, 2, 4, 8, 16, 32, 64, 128} and 0x00 for
\* 200 bytes of 0xAA.
C3_Ecc ==
    /\ ecc = XorAll(tx)
    /\ pc \in {"up_ecc", "up_rst"} =>
          /\ ecc = XorAll(ImageBytes(img))
          /\ img = [len |-> 8, pat |-> "s1"] => ecc = 255
          /\ img = [len |-> 200, pat |-> "aa"] => ecc = 0

C3_Witness ==
    pc = "up_ecc" /\ img = [len |-> 8, pat |-> "s1"] /\ ecc = 255

\* the write engine has read the ECC register and returned
Verified == pc = "up_ret" /\ bus.cc = 1

\* C4: when the byte read from register 0xCC differs from ecc, the write
\* engine returns -EIO with an ECC error and the ECC read is its last
\* transaction (no 0x07 is sent); when it is equal, the 0x07 reset is sent
\* and the write engine returns 0.
C4_Verify ==
    Verified =>
      IF reg_val # ecc
      THEN /\ ret = -EIO
           /\ "ecc" \in errs
           /\ bus.rst = 0
           /\ lastXfer = Xfer(<<204>>, 1)
      ELSE /\ ret = 0
           /\ bus.rst = 1
           /\ lastXfer = Xfer(<<7>>, 0)

C4_Witness ==
    Verified /\ reg_val = 171 /\ ecc = 255 /\ ret = -EIO /\ bus.rst = 0

\* C5: a transport error on a transaction of the write engine after
\* bootloader entry (0x61, 0x63, 0xB0, 0xBF, ECC read) aborts it: from the
\* failed transaction on the engine has returned, with an error, and no
\* further step is issued.
C5_AbortOnTransportError ==
    wrErr => (pc \in {"up_ret", "end", "exit"} /\ ret < 0)

\* the kinds of fatal error C6 lists
FatalErrs == {"flag", "chip", "transport", "bootloader", "ecc"}

\* C6: the exit status is 0 when the run reported no error and non-zero
\* when it reported an unknown flag, an unsupported chip, a transport
\* error, a bootloader entry failure or an ECC mismatch.
C6_ExitStatus ==
    pc = "exit" =>
      /\ errs = {} => status = 0
      /\ errs \cap FatalErrs # {} => status # 0

\* the write engine is past its erase step
Erased ==
    \/ pc \in {"up_len", "up_pkt", "up_poll", "up_ecc", "up_rst"}
    \/ pc = "up_ret" /\ bus.e61 > 0

\* C7: in a write run with chip id 0x54 every bootloader entry attempt
\* sends the bridge sequence before its {0x55, 0xAA} write and 0x63 is
\* never sent; with chip id 0x55 or 0x0a the bridge sequence is never sent
\* and 0x63 is sent exactly once, after 0x61: never before it, never
\* twice, and once as soon as the erase step is done.  The write engine
\* returns without having sent it only when bootloader entry failed, and
\* then it has sent nothing else either.
C7_VariantDispatch ==
    caller = "upgrade" =>
      /\ chip_id = 84 =>
           /\ bus.e63 = 0
           /\ pc = "iu_hid" => att.bridge = att.ctpm - 1
           /\ pc = "iu_enter" => att.bridge = att.ctpm
           /\ att.hs <= att.bridge
           /\ Erased => bus.e61 = 1
      /\ chip_id \in {85, 10} =>
           /\ att.bridge = 0
           /\ pc # "iu_hid"
           /\ bus.e63 <= bus.e61
           /\ bus.e61 <= 1
           /\ Erased => (bus.e61 = 1 /\ bus.e63 = 1)
           /\ pc = "up_ret" =>
                 IF bus = NoBus THEN ret = -EIO ELSE bus.e63 = 1

C7_Witness ==
    /\ caller = "upgrade" /\ chip_id = 10 /\ pc = "up_ret"
    /\ bus.e63 = 1 /\ bus.e61 = 1

\* C8: once the chip id is known and is none of 0x55, 0x0a, 0x54, the run
\* reports an unsupported chip and ends; no CTPM reset, handshake, erase,
\* program, read packet or firmware reset is sent, the only transaction of
\* the run being the read of register 0xA3.
C8_Unsupported ==
    (chip_id >= 0 /\ chip_id \notin {85, 10, 84}) =>
      /\ pc \in {"open", "detect", "name", "end", "exit"}
      /\ (pc \in {"end", "exit"} /\ "open" \notin errs) => "chip" \in errs
      /\ att = NoAtt
      /\ bus = NoBus
      /\ lastXfer \in {Xfer(<<>>, 0), Xfer(<<163>>, 1)}

C8_Witness ==
    pc = "exit" /\ chip_id = 153 /\ "chip" \in errs /\ args.input

\* C9: a write whose image length is outside [8, 65536] never enters the
\* write engine: no bootloader entry, erase, length announcement or
\* programming packet is sent for it.
C9_SizeCheck ==
    (args.input /\ ~InRange(img)) =>
      /\ caller # "upgrade"
      /\ bus.e61 = 0 /\ bus.e63 = 0 /\ bus.b0 = 0 /\ bus.bf = 0

\* the read engine has returned 0
ReadDone == pc = "rd_ret" /\ ret = 0

\* C10: while the read engine reads, the k-th read command is
\* {0x03, 0x00, high, low} of offset 256 * (k - 1) and asks for 256 bytes,
\* and the output file holds the blocks received so far in that order; a
\* read run without failure issues exactly 256 commands, has appended
\* 65536 bytes, and its last transaction is the write of 0x07.
C10_Read ==
    /\ pc \in {"rd_pkt", "rd_rst"} =>
         /\ bus.rd = Len(sink)
         /\ i_read = 256 * bus.rd
         /\ bus.rd > 0 =>
              lastXfer = Xfer(<<3, 0, (256 * (bus.rd - 1)) \div 256,
                                (256 * (bus.rd - 1)) % 256>>, 256)
         /\ \A k \in 1..Len(sink) : sink[k] = 256 * (k - 1)
    /\ pc = "rd_rst" => bus.rd = 256
    /\ ReadDone =>
         /\ bus.rd = 256
         /\ Len(sink) * 256 = 65536
         /\ \A k \in 1..Len(sink) : sink[k] = 256 * (k - 1)
         /\ bus.rst = 1
         /\ lastXfer = Xfer(<<7>>, 0)

C10_Witness == ReadDone /\ Len(sink) = 256 /\ sink[256] = 65280

\* the positions of main outside the two engines
MainOnly == {"parse", "open", "detect", "name", "fwver", "todo", "end", "exit"}

\* C11: a run with neither -i nor -o stays in main: its only transactions
\* are the read of register 0xA3 (none when -c gives the id) and the read
\* of register 0xA6, it makes no bootloader entry attempt and sends no
\* erase, length, programming, read-packet or reset command, and when it
\* has reported no error it exits 0 right after the 0xA6 read.
C11_NoOp ==
    (~args.input /\ ~args.output) =>
      /\ pc \in MainOnly
      /\ caller = "none"
      /\ att = NoAtt
      /\ bus = NoBus
      /\ lastXfer \in {Xfer(<<>>, 0), Xfer(<<163>>, 1), Xfer(<<166>>, 1)}
      /\ args.chipArg >= 0 => lastXfer # Xfer(<<163>>, 1)
      /\ pc = "todo" => lastXfer = Xfer(<<166>>, 1)
      /\ (pc = "exit" /\ errs = {}) =>
            (status = 0 /\ lastXfer = Xfer(<<166>>, 1))

C11_Witness ==
    /\ pc = "exit" /\ ~args.input /\ ~args.output /\ args.chipArg = -1
    /\ status = 0 /\ errs = {} /\ lastXfer = Xfer(<<166>>, 1)

\* number of programming packets of an image
NPkts(f) == (f.len + FT_FW_PKT_LEN - 1) \div FT_FW_PKT_LEN

\* C12: the write engine sends 0x61 only after a bootloader entry that
\* succeeded, 0x63 only after 0x61, 0xB0 only after the erase commands,
\* 0xBF packets only after 0xB0, the read of 0xCC only after the last
\* packet and its status polls, and 0x07 only after the read of 0xCC; each
\* of 0x61, 0x63, 0xB0, 0xCC and 0x07 is sent at most once.  When the
\* engine returns 0 it has sent every step once, all the packets of the
\* image, and 0x07 last.
C12_Order ==
    /\ pc = "up_erase" => (boot /\ ret = 0 /\ bus = NoBus)
    /\ (bus.e61 > 0 /\ bus.rst = 0) => boot
    /\ bus.e61 <= 1 /\ bus.e63 <= bus.e61
    /\ bus.b0 <= bus.e61
    /\ bus.b0 = 1 => bus.e63 = (IF chip_id = 84 THEN 0 ELSE 1)
    /\ bus.bf > 0 => bus.b0 = 1
    /\ bus.bf <= NPkts(img)
    /\ bus.cc <= 1
    /\ bus.cc = 1 => bus.bf = NPkts(img)
    /\ caller = "upgrade" => bus.rst <= bus.cc
    /\ pc = "up_panel" => lastXfer = Xfer(<<97>>, 0)
    /\ pc = "up_len" => lastXfer \in {Xfer(<<97>>, 0), Xfer(<<99>>, 0)}
    /\ pc = "up_pkt" => (lastXfer.wr[1] = 176 \/ lastXfer = Xfer(<<106>>, 2))
    /\ pc = "up_ecc" => (bus.bf = NPkts(img) /\ bus.cc = 0)
    /\ pc = "up_rst" => lastXfer = Xfer(<<204>>, 1)
    /\ (pc = "up_ret" /\ ret = 0) =>
          /\ bus = [e61 |-> 1, e63 |-> IF chip_id = 84 THEN 0 ELSE 1,
                    b0 |-> 1, bf |-> NPkts(img), cc |-> 1, rst |-> 1,
                    rd |-> 0]
          /\ lastXfer = Xfer(<<7>>, 0)

C12_Witness ==
    /\ pc = "up_ret" /\ ret = 0 /\ chip_id = 85 /\ img.len = 257
    /\ bus.bf = 3 /\ bus.rst = 1 /\ ~boot

\* C13: once main has reported that the read engine failed, the run only
\* ends: the write engine is not called, so no bootloader entry attempt,
\* erase, length announcement or programming packet follows.
C13_ReadFailureStops ==
    "read" \in errs =>
      /\ pc \in {"in_open", "end", "exit"}
      /\ caller # "upgrade"
      /\ att = NoAtt
      /\ bus = NoBus

\* C14: while the chip is in the bootloader mode the host put it in, that
\* is after a bootloader entry that succeeded and before the next write of
\* 0x07, no step of the run sends a CTPM reset to register 0xFC or a
\* {0x55, 0xAA} handshake.
C14_NoReentry ==
    [][boot => (att'.ctpm <= att.ctpm /\ att'.hs <= att.hs)]_vars

\* the pair (upgrade_id_1, upgrade_id_2) of a supported chip
UpgradeIds(id) ==
    LET info == ft5x06_fwu_info[ft5x06_get_info(id)]
    IN  <<info.upgrade_id_1, info.upgrade_id_2>>

HandshakeXfer == Xfer(<<85, 170>>, 0)

ReadIdXfer == Xfer(<<144, 0, 0, 0>>, 2)

\* position after a failed attempt that leaves n attempts consumed
Retry(n) == IF n < 30 THEN "iu_reset" ELSE "iu_exit"

\* attempt i_init + 1 is under way: it has made its CTPM reset, and the
\* attempts before it made one reset and one handshake write each
C15_Counts ==
    /\ pc = "iu_reset" =>
          (att.ctpm = i_init /\ att.hs = i_init /\ ~att.matched)
    /\ pc \in {"iu_hid", "iu_enter"} =>
          (att.ctpm = i_init + 1 /\ att.hs = i_init /\ ~att.matched)
    /\ pc = "iu_readid" =>
          /\ att.ctpm = i_init + 1 /\ att.hs = i_init + 1 /\ ~att.matched
          /\ lastXfer = HandshakeXfer
    /\ att.matched =>
          /\ pc \in {"iu_exit", "rd_chk", "up_chk"}
          /\ att.ctpm = i_init + 1
          /\ att.ctpm \in 1..30
          /\ att.hs = att.ctpm
          /\ att.id = UpgradeIds(chip_id)
          /\ lastXfer = ReadIdXfer
    /\ EntryReturned =>
          /\ ret \in {0, -EIO}
          /\ ret = 0 <=> att.matched
          /\ ret = 0 <=> (att.id = UpgradeIds(chip_id) /\ lastXfer = ReadIdXfer)
          /\ ret # 0 => i_init = 30

\* what one attempt does after its CTPM reset
C15_Step ==
    /\ pc = "iu_enter" =>
          \/ pc' = "iu_readid" /\ i_init' = i_init
          \/ /\ i_init' = i_init + 1
             /\ pc' = Retry(i_init')
             /\ lastXfer' = HandshakeXfer
             /\ att'.id = <<0, 0>>
             /\ ~att'.matched
    /\ pc = "iu_readid" =>
          /\ lastXfer' = ReadIdXfer
          /\ IF att'.id = UpgradeIds(chip_id)
             THEN att'.matched /\ pc' = "iu_exit" /\ i_init' = i_init
             ELSE /\ ~att'.matched
                  /\ i_init' = i_init + 1
                  /\ pc' = Retry(i_init')

\* C15: ft5x06_init_upgrade returns 0 exactly when an attempt among its 30
\* had its {0x55, 0xAA} write succeed and its ID read return
\* (upgrade_id_1, upgrade_id_2); it stops at the first such attempt k with
\* k CTPM resets and k handshake writes done.  A failed {0x55, 0xAA} write
\* goes to the next attempt without an ID read; an ID read that fails or
\* returns other bytes goes to the next attempt too; each consumes one of
\* the 30 attempts and none returns before the 30th.
C15_Entry == [](C15_Counts) /\ [][C15_Step]_vars

C15_Witness ==
    /\ pc = "iu_exit" /\ att.matched /\ att.ctpm = 3 /\ att.hs = 3
    /\ i_init = 2 /\ chip_id = 10 /\ att.id = <<121, 7>>

PollXfer == Xfer(<<106>>, 2)

\* 0x1000 | (offset / 128), the OR taken bit by bit
ExpectedStatus(offset) ==
    LET n == offset \div 128
    IN  IF (n \div 4096) % 2 = 1 THEN n ELSE 4096 + n

\* between the packet at offset i_upg and the next step: polls made so far
\* did not match, and the next step is reached only through a poll
C16_Polls ==
    /\ pc = "up_poll" =>
          /\ i_poll \in 0..4
          /\ i_poll > 0 =>
                (lastXfer = PollXfer /\ flash_val # ExpectedStatus(i_upg))
          /\ i_poll = 0 => lastXfer.wr[1] = 191
    /\ (pc \in {"up_pkt", "up_ecc"} /\ bus.bf > 0) => lastXfer = PollXfer

\* one read of register 0x6A and what follows it
C16_Step ==
    pc = "up_poll" =>
      /\ lastXfer' = PollXfer
      /\ IF flash_val' = ExpectedStatus(i_upg) \/ i_poll = 4
         THEN /\ i_upg' = i_upg + 128
              /\ pc' = IF i_upg' < img.len THEN "up_pkt" ELSE "up_ecc"
         ELSE /\ pc' = "up_poll"
              /\ i_poll' = i_poll + 1
              /\ i_upg' = i_upg
      /\ ret' = ret /\ errs' = errs /\ wrErr' = wrErr /\ bus' = bus

\* C16: after each programming packet the host reads register 0x6A at
\* least once and at most five times; it stops at the first read whose two
\* bytes are 0x1000 | (offset / 128) and otherwise after the fifth, and
\* then goes on to the next packet or to the ECC read; no poll, matching,
\* not matching or failed, changes the engine's result or reports an
\* error.
C16_FlashStatus == [](C16_Polls) /\ [][C16_Step]_vars

C16_Witness ==
    /\ pc = "up_ecc" /\ lastXfer = PollXfer /\ flash_val = 0
    /\ img.len = 8 /\ ~wrErr /\ ret = 0

\* C17: the flash status register 0x6A is read after programming packets
\* only when chip_id is 0x54; with chip_id 0x55 or 0x0a the write engine
\* never enters the poll loop and never reads 0x6A.
C17_PollPerVariant ==
    (pc = "up_poll" \/ lastXfer.wr = <<106>>) => chip_id = 84

\* the three bytes ft5x26_hid_to_i2c compares its reply with
BridgeOk == <<235, 170, 8>>

\* the bridge read is made once per attempt of a 0x54 chip and the result
\* of the call is decided by the ID read alone
C18_Result ==
    /\ (chip_id = 84 /\ pc \in {"iu_enter", "iu_readid"}) =>
          att.bridge = att.ctpm
    /\ (chip_id = 84 /\ EntryReturned /\ att.hid # BridgeOk) =>
          (ret = 0 <=> (att.id = UpgradeIds(chip_id) /\ lastXfer = ReadIdXfer))

\* the steps of an attempt from the bridge read on
C18_Step ==
    /\ pc = "iu_hid" =>
          /\ pc' = "iu_enter"
          /\ lastXfer' = Xfer(<<>>, 3)
          /\ i_init' = i_init /\ ret' = ret /\ errs' = errs
          /\ ~att'.matched
    /\ (pc = "iu_enter" /\ att.hid # BridgeOk) =>
          /\ lastXfer' = HandshakeXfer
          /\ pc' \in {"iu_readid", Retry(i_init + 1)}
    /\ (pc = "iu_readid" /\ att.hid # BridgeOk) =>
          /\ lastXfer' = ReadIdXfer
          /\ att'.id = UpgradeIds(chip_id) =>
                (att'.matched /\ boot' /\ pc' = "iu_exit")

\* C18: for chip_id 0x54 an attempt whose three-byte bridge read fails or
\* returns something other than {0xEB, 0xAA, 0x08} goes on to the
\* {0x55, 0xAA} write and, when that write succeeds, to the ID read, and
\* bootloader entry succeeds when the ID read returns the upgrade ids; the
\* bridge read never ends an attempt or the call.
C18_BridgeIgnored == [](C18_Result) /\ [][C18_Step]_vars

C18_Witness ==
    /\ pc = "up_chk" /\ chip_id = 84 /\ att.hid = <<235, 170, 9>>
    /\ att.matched /\ ret = 0 /\ att.id = <<84, 44>>

\* the counters of the two retry loops and of the two packet loops stay
\* within 30 attempts per engine call, 5 polls per packet, the packets of
\* the image and the 256 read commands
C19_Bounds ==
    /\ i_init \in 0..30
    /\ att.ctpm <= 30 /\ att.bridge <= att.ctpm /\ att.hs <= att.ctpm
    /\ i_poll \in 0..4
    /\ bus.bf <= NPkts(img)
    /\ i_upg <= 128 * NPkts(img)
    /\ bus.rd <= 256
    /\ i_read <= 65536
    /\ bus.e61 <= 1 /\ bus.e63 <= 1 /\ bus.b0 <= 1 /\ bus.cc <= 1
    /\ bus.rst <= 1

\* C19: every run ends, whatever the bus and the chip answer: each
\* bootloader entry makes at most 30 attempts, each programming packet is
\* followed by at most 5 status reads, the write engine sends at most the
\* packets of the image and each other command once, the read engine at
\* most 256 read commands, and the process reaches its exit.
C19_Terminates == [](C19_Bounds) /\ <>(pc = "exit")

C19_Witness ==
    /\ pc = "exit" /\ args.input /\ args.output /\ faulty
    /\ "bootloader" \in errs /\ "read" \in errs /\ i_init = 0

IsByte(b) == b \in 0..255

\* the last transaction is the length announcement
Announced == Len(lastXfer.wr) > 0 /\ lastXfer.wr[1] = 176

\* C20: for an image of length L in [8, 65536] the announcement is 0xB0
\* followed by three bytes whose big-endian value is L, {0x01, 0x00, 0x00}
\* for L = 65536; every programming packet carries in header bytes 2..3
\* the offset of its first payload byte in the image and in bytes 4..5 the
\* number of payload bytes that follow, both as 16-bit big-endian values,
\* and every offset is below 65536.
C20_Encoding ==
    InRange(img) =>
      /\ Announced =>
            LET a == lastXfer.wr
            IN  /\ Len(a) = 4
                /\ IsByte(a[2]) /\ IsByte(a[3]) /\ IsByte(a[4])
                /\ a[2] * 65536 + a[3] * 256 + a[4] = img.len
                /\ img.len = 65536 => a = <<176, 1, 0, 0>>
      /\ JustSent =>
            LET p == lastXfer.wr
                sent == Len(p) - 6
            IN  /\ \A k \in 3..6 : IsByte(p[k])
                /\ i_upg < 65536
                /\ p[3] * 256 + p[4] = i_upg
                /\ p[5] * 256 + p[6] = sent
                /\ sent \in 1..128
                /\ Len(tx) = i_upg + sent
                /\ i_upg + sent <= img.len

C20_Witness ==
    /\ pc = "up_pkt" /\ img.len = 65536 /\ i_upg = 0
    /\ lastXfer = Xfer(<<176, 1, 0, 0>>, 0)

====
